---- MODULE Spec2Model ----
(***************************************************************************)
(* IntelliSpend API (src/main.py): the users and expenses tables behind    *)
(* the FastAPI endpoints, one database connection and one transaction per  *)
(* request, requests of two clients interleaved statement by statement.    *)
(***************************************************************************)
EXTENDS Integers, Sequences, FiniteSets, TLC

VARIABLES
    users,          \* the users table: sequence of rows, in commit order
    expenses,       \* the expenses table: sequence of rows, in commit order
    nextUserId,     \* the serial behind users.user_id
    uniqueLedger,   \* whether the schema has UNIQUE (user_id, user_expense_id)
    req,            \* per client: the request in flight and its handler's locals
    started,        \* number of requests received so far
    faults,         \* number of faults raised so far
    removals,       \* number of rows removed outside the API so far
    assigned,       \* per user_id: the user_expense_id values committed, in commit order
    overlapped,     \* user_ids for which two inserts overlapped (read before the other's commit)
    removed         \* user_ids one of whose expense rows was removed

vars == <<users, expenses, nextUserId, uniqueLedger, req, started, faults,
          removals, assigned, overlapped, removed>>

----------------------------------------------------------------------------
\* Bounds of the model.

MaxRequests == 3
MaxFaults == 1
MaxRemovals == 1
\* The reading of datetime.now(); later than every backdated transaction_date.
Now == 2

Clients == {"c1", "c2"}
UserIds == {1, 2}
Amounts == {-1, 0, 5}
BackDates == {1}
Usernames == {"alice", "bob"}
Emails == {"a@x.com", "b@x.com"}
PathSegments == {"1", "2", "powerbi_export"}

\* None, for an absent transaction_date, an absent merchant and a null join column.
NoDate == 0
Null == "NULL"

----------------------------------------------------------------------------
\* Routing: the route table in registration order, first match wins.

Routes ==
    << [method |-> "GET",  path |-> <<>>,                       endpoint |-> "read_root"],
       [method |-> "POST", path |-> <<"users", "signup">>,      endpoint |-> "create_user"],
       [method |-> "POST", path |-> <<"users", "login">>,       endpoint |-> "login_user"],
       [method |-> "POST", path |-> <<"expenses", "manual", "">>, endpoint |-> "create_manual_expense"],
       [method |-> "GET",  path |-> <<"expenses", "{user_id}">>,  endpoint |-> "get_user_expenses"],
       [method |-> "GET",  path |-> <<"expenses", "powerbi_export">>, endpoint |-> "export_expenses_for_powerbi"] >>

IsPathParam(seg) == seg = "{user_id}"

\* A path parameter matches one non-empty segment; any other segment matches itself.
Match(pattern, path) ==
    /\ Len(pattern) = Len(path)
    /\ \A i \in 1..Len(pattern) :
          IF IsPathParam(pattern[i]) THEN path[i] # "" ELSE pattern[i] = path[i]

Dispatch(method, path) ==
    LET full == {i \in DOMAIN Routes :
                    Routes[i].method = method /\ Match(Routes[i].path, path)}
    IN  IF full = {} THEN "not_found"
        ELSE Routes[CHOOSE i \in full : \A j \in full : i <= j].endpoint

\* int(segment) of the user_id: int path parameter.
IsIntString(s) == s \in {"1", "2"}
ToInt(s) == IF s = "1" THEN 1 ELSE 2

----------------------------------------------------------------------------
\* Request validation.

\* Field(ge=0) in place of Field(gt=0).
ValidExpenseCreateGe(amount) == amount >= 0

\* ExpenseCreate: amount: Decimal = Field(gt=0).
ValidExpenseCreate(amount) == amount > 0

UsesConnection(endpoint) ==
    endpoint \in {"create_user", "login_user", "create_manual_expense",
                  "get_user_expenses", "export_expenses_for_powerbi"}

\* Whether the request's parameters pass validation for the endpoint.
ValidRequest(r) ==
    CASE r.endpoint = "create_manual_expense" -> ValidExpenseCreate(r.amount)
      [] r.endpoint = "get_user_expenses"     -> IsIntString(r.raw)
      [] OTHER                                -> TRUE

----------------------------------------------------------------------------
\* The request slot of a client.

Idle ==
    [endpoint |-> "none", pc |-> "idle", method |-> "", path |-> <<>>,
     username |-> "", email |-> "", user_id |-> 0, amount |-> 0,
     transaction_date |-> NoDate, raw |-> "",
     conn |-> "none", txlog |-> <<>>, pending |-> <<>>,
     max_id |-> 0, next_id |-> 0,
     status |-> 0, result |-> <<>>, headers |-> {},
     dberr |-> FALSE, integrity |-> FALSE, faulted |-> FALSE, raced |-> FALSE]

Init ==
    /\ users = <<>>
    /\ expenses = <<>>
    /\ nextUserId = 1
    /\ uniqueLedger \in BOOLEAN
    /\ req = [c \in Clients |-> Idle]
    /\ started = 0
    /\ faults = 0
    /\ removals = 0
    /\ assigned = [u \in UserIds |-> <<>>]
    /\ overlapped = {}
    /\ removed = {}

Unchanged(c) == UNCHANGED <<users, expenses, nextUserId, uniqueLedger, started,
                            faults, removals, assigned, overlapped, removed>>

\* The connection of Depends(get_db_connection): none for an endpoint without the
\* dependency, open once psycopg2.connect has returned.
Acquire(endpoint) == IF UsesConnection(endpoint) THEN "open" ELSE "none"

\* The request as the endpoint function is about to see it: dependencies resolved
\* first, parameters validated after; an invalid request is answered 422 and the
\* function is not entered.
Resolve(r) ==
    IF r.endpoint = "read_root" THEN [r EXCEPT !.pc = "done", !.status = 200]
    ELSE IF ValidRequest(r)
    THEN [r EXCEPT !.conn = Acquire(r.endpoint), !.pc = "try",
                   !.user_id = IF r.endpoint = "get_user_expenses"
                               THEN ToInt(r.raw) ELSE r.user_id]
    ELSE [r EXCEPT !.conn = Acquire(r.endpoint), !.pc = "done", !.status = 422]

Incoming(endpoint, method, path, body) ==
    [Idle EXCEPT !.endpoint = endpoint, !.method = method, !.path = path,
                 !.username = body.username, !.email = body.email,
                 !.user_id = body.user_id, !.amount = body.amount,
                 !.transaction_date = body.transaction_date,
                 !.raw = IF endpoint = "get_user_expenses" THEN path[2] ELSE ""]

\* A request arrives, is routed, and its dependencies and parameters are resolved.
Receive(c, method, path, body) ==
    /\ req[c].pc = "idle"
    /\ started < MaxRequests
    /\ started' = started + 1
    /\ req' = [req EXCEPT ![c] = Resolve(Incoming(Dispatch(method, path), method, path, body))]
    /\ UNCHANGED <<users, expenses, nextUserId, uniqueLedger, faults, removals,
                   assigned, overlapped, removed>>

NoBody == [username |-> "", email |-> "", user_id |-> 0, amount |-> 0,
           transaction_date |-> NoDate]

ExpenseBody(u, a, d) == [NoBody EXCEPT !.user_id = u, !.amount = a, !.transaction_date = d]
UserBody(n, e) == [NoBody EXCEPT !.username = n, !.email = e]

\* GET /
RequestRoot(c) == Receive(c, "GET", <<>>, NoBody)

\* POST /users/signup
RequestSignup(c) ==
    \E n \in Usernames, e \in Emails :
        Receive(c, "POST", <<"users", "signup">>, UserBody(n, e))

\* POST /users/login
RequestLogin(c) ==
    \E n \in Usernames, e \in Emails :
        Receive(c, "POST", <<"users", "login">>, UserBody(n, e))

\* POST /expenses/manual/
RequestManualExpense(c) ==
    \E u \in UserIds, a \in Amounts, d \in BackDates \cup {NoDate} :
        Receive(c, "POST", <<"expenses", "manual", "">>, ExpenseBody(u, a, d))

\* GET /expenses/<segment>: a user's list, or the export path
RequestGetExpenses(c) ==
    \E seg \in PathSegments : Receive(c, "GET", <<"expenses", seg>>, NoBody)

\* exportAll() invoked on the endpoint function itself, its dependency resolved.
CallExport(c) ==
    /\ req[c].pc = "idle"
    /\ started < MaxRequests
    /\ started' = started + 1
    /\ req' = [req EXCEPT ![c] =
            Resolve([Idle EXCEPT !.endpoint = "export_expenses_for_powerbi"])]
    /\ UNCHANGED <<users, expenses, nextUserId, uniqueLedger, faults, removals,
                   assigned, overlapped, removed>>

\* The requests of the model, as <<method, path, body>>.
Requests ==
    {<<"GET", <<>>, NoBody>>}
    \cup {<<"POST", <<"users", "signup">>, UserBody(n, e)>> : n \in Usernames, e \in Emails}
    \cup {<<"POST", <<"users", "login">>, UserBody(n, e)>> : n \in Usernames, e \in Emails}
    \cup {<<"POST", <<"expenses", "manual", "">>, ExpenseBody(u, a, d)>> :
            u \in UserIds, a \in Amounts, d \in BackDates \cup {NoDate}}
    \cup {<<"GET", <<"expenses", seg>>, NoBody>> : seg \in PathSegments}

\* psycopg2.connect raises OperationalError while the dependency is resolved: the
\* error propagates, the parameters are not looked at, the request has no connection.
ConnectFails(c) ==
    /\ req[c].pc = "idle"
    /\ started < MaxRequests
    /\ faults < MaxFaults
    /\ started' = started + 1
    /\ faults' = faults + 1
    /\ \E q \in Requests :
          /\ UsesConnection(Dispatch(q[1], q[2]))
          /\ req' = [req EXCEPT ![c] =
                [Incoming(Dispatch(q[1], q[2]), q[1], q[2], q[3])
                    EXCEPT !.pc = "done", !.status = 500, !.faulted = TRUE]]
    /\ UNCHANGED <<users, expenses, nextUserId, uniqueLedger, removals,
                   assigned, overlapped, removed>>

----------------------------------------------------------------------------
\* Leaving the endpoint function: the except clauses and the finally clause.

\* create_manual_expense's except clause without its conn.rollback(), as in the
\* reading endpoints.
RollsBackSignupOnly(endpoint) == endpoint = "create_user"

\* Which endpoints call conn.rollback() in their except clauses.
RollsBack(endpoint) == endpoint \in {"create_user", "create_manual_expense"}

\* The psycopg2.Error clause written before the IntegrityError clause: it takes
\* every database error.
ExceptStatusGenericFirst(endpoint, integrity) ==
    IF endpoint = "export_expenses_for_powerbi" THEN 500 ELSE 400

\* The export's except clause pasted into create_manual_expense.
ExceptStatusPasted(endpoint, integrity) ==
    CASE endpoint = "create_user" /\ integrity -> 409
      [] endpoint \in {"export_expenses_for_powerbi", "create_manual_expense"} -> 500
      [] OTHER -> 400

\* The status of the except clause taken: create_user has an IntegrityError clause
\* before the psycopg2.Error clause, the export answers 500, the others 400.
ExceptStatus(endpoint, integrity) ==
    CASE endpoint = "create_user" /\ integrity        -> 409
      [] endpoint = "export_expenses_for_powerbi"     -> 500
      [] OTHER                                        -> 400

\* finally: if conn: conn.close(). Closing discards an uncommitted transaction.
Close(r) ==
    [r EXCEPT !.pc = "done", !.conn = "closed", !.pending = <<>>,
              !.txlog = Append(r.txlog, "close")]

\* except psycopg2.Error: rollback where coded, raise HTTPException; then finally.
RaiseDbError(r, integrity) ==
    Close([r EXCEPT !.dberr = TRUE, !.integrity = integrity,
                    !.status = ExceptStatus(r.endpoint, integrity),
                    !.pending = IF RollsBack(r.endpoint) THEN <<>> ELSE r.pending,
                    !.txlog = IF RollsBack(r.endpoint)
                              THEN Append(r.txlog, "rollback") ELSE r.txlog])

\* conn.commit() and the return, then finally.
CommitAndReturn(r, status, result) ==
    Close([r EXCEPT !.status = status, !.result = result, !.pending = <<>>,
                    !.txlog = Append(r.txlog, "commit")])

\* The program points at which the endpoint executes a statement or commits.
InTry(r) == r.pc \in {"try", "insert", "commit"}

\* A statement (or the commit) raises psycopg2.Error for a reason of the database.
DbFault(c) ==
    /\ InTry(req[c])
    /\ faults < MaxFaults
    /\ faults' = faults + 1
    /\ req' = [req EXCEPT ![c] = RaiseDbError([req[c] EXCEPT !.faulted = TRUE], FALSE)]
    /\ UNCHANGED <<users, expenses, nextUserId, uniqueLedger, started, removals,
                   assigned, overlapped, removed>>

\* An exception that is no psycopg2.Error: no except clause takes it, finally runs.
Unexpected(c) ==
    /\ InTry(req[c])
    /\ faults < MaxFaults
    /\ faults' = faults + 1
    /\ req' = [req EXCEPT ![c] = Close([req[c] EXCEPT !.status = 500, !.faulted = TRUE])]
    /\ UNCHANGED <<users, expenses, nextUserId, uniqueLedger, started, removals,
                   assigned, overlapped, removed>>

\* The response is sent; the slot is free for the client's next request.
Return(c) ==
    /\ req[c].pc = "done"
    /\ req' = [req EXCEPT ![c] = Idle]
    /\ Unchanged(c)

----------------------------------------------------------------------------
\* create_manual_expense

\* The query without its WHERE user_id = %s.
MaxExpenseIdAnyUser(table, uid) ==
    LET ids == {table[i].user_expense_id : i \in DOMAIN table}
    IN  IF ids = {} THEN 0 ELSE CHOOSE m \in ids : \A n \in ids : n <= m

\* COUNT(*) in place of MAX(user_expense_id).
CountUserExpenses(table, uid) ==
    Cardinality({j \in DOMAIN table : table[j].user_id = uid})

\* SELECT COALESCE(MAX(user_expense_id), 0) FROM expenses WHERE user_id = %s
MaxUserExpenseId(table, uid) ==
    LET ids == {table[i].user_expense_id : i \in {j \in DOMAIN table : table[j].user_id = uid}}
    IN  IF ids = {} THEN 0 ELSE CHOOSE m \in ids : \A n \in ids : n <= m

\* next_user_expense_id = max_id + 1
NextUserExpenseId(max_id) == max_id + 1

\* transaction_ts = expense.transaction_date or datetime.now()
TransactionTs(d) == IF d # NoDate THEN d ELSE Now

\* The row of the INSERT ... RETURNING *.
ExpenseRow(r) ==
    [user_id |-> r.user_id, user_expense_id |-> r.next_id, amount |-> r.amount,
     category |-> "food", merchant |-> Null,
     transaction_date |-> TransactionTs(r.transaction_date),
     source |-> "manual"]

\* The other clients whose insert for the same user has read its maximum and has
\* not committed yet.
OpenInserts(c, uid) ==
    {d \in Clients \ {c} :
        /\ req[d].endpoint = "create_manual_expense"
        /\ req[d].user_id = uid
        /\ req[d].pc \in {"insert", "commit"}}

SelectMax(c) ==
    /\ req[c].pc = "try"
    /\ req[c].endpoint = "create_manual_expense"
    /\ LET uid   == req[c].user_id
           m     == MaxUserExpenseId(expenses, uid)
           peers == OpenInserts(c, uid)
       IN  /\ req' = [d \in Clients |->
                        IF d = c
                        THEN [req[c] EXCEPT !.max_id = m, !.next_id = NextUserExpenseId(m),
                                            !.pc = "insert", !.raced = (peers # {})]
                        ELSE IF d \in peers THEN [req[d] EXCEPT !.raced = TRUE]
                        ELSE req[d]]
           /\ overlapped' = IF peers # {} THEN overlapped \cup {uid} ELSE overlapped
    /\ UNCHANGED <<users, expenses, nextUserId, uniqueLedger, started, faults,
                   removals, assigned, removed>>

SameLedgerKey(a, b) ==
    a.user_id = b.user_id /\ a.user_expense_id = b.user_expense_id

\* The INSERT. Under UNIQUE (user_id, user_expense_id) it raises IntegrityError
\* against a committed row with the key, and waits for an uncommitted one.
InsertExpense(c) ==
    /\ req[c].pc = "insert"
    /\ LET row == ExpenseRow(req[c])
           waits == \E d \in Clients \ {c} :
                        /\ req[d].endpoint = "create_manual_expense"
                        /\ req[d].pending # <<>>
                        /\ SameLedgerKey(req[d].pending[1], row)
           clash == \E i \in DOMAIN expenses : SameLedgerKey(expenses[i], row)
       IN  /\ uniqueLedger => ~waits
           /\ req' = [req EXCEPT ![c] =
                    IF uniqueLedger /\ clash
                    THEN RaiseDbError(req[c], TRUE)
                    ELSE [req[c] EXCEPT !.pc = "commit", !.pending = <<row>>]]
    /\ Unchanged(c)

\* new_expense = cur.fetchone(); conn.commit(); return new_expense
CommitExpense(c) ==
    /\ req[c].pc = "commit"
    /\ req[c].endpoint = "create_manual_expense"
    /\ LET row == req[c].pending[1]
       IN  /\ expenses' = Append(expenses, row)
           /\ assigned' = [assigned EXCEPT ![row.user_id] = Append(@, row.user_expense_id)]
           /\ req' = [req EXCEPT ![c] = CommitAndReturn(req[c], 201, <<row>>)]
    /\ UNCHANGED <<users, nextUserId, uniqueLedger, started, faults, removals,
                   overlapped, removed>>

----------------------------------------------------------------------------
\* create_user and login_user

\* The unique constraints of users: username, and email.
UsersUniqueViolation(row, rows) ==
    \E i \in DOMAIN rows :
        rows[i].username = row.username \/ rows[i].email = row.email

UserRow(r) ==
    [user_id |-> nextUserId, username |-> r.username, email |-> r.email,
     created_at |-> Now]

\* INSERT INTO users ... RETURNING; the serial is consumed whether or not the row stays.
InsertUser(c) ==
    /\ req[c].pc = "try"
    /\ req[c].endpoint = "create_user"
    /\ LET row == UserRow(req[c])
           waits == \E d \in Clients \ {c} :
                        /\ req[d].endpoint = "create_user"
                        /\ UsersUniqueViolation(row, req[d].pending)
       IN  /\ ~waits
           /\ req' = [req EXCEPT ![c] =
                    IF UsersUniqueViolation(row, users)
                    THEN RaiseDbError(req[c], TRUE)
                    ELSE [req[c] EXCEPT !.pc = "commit", !.pending = <<row>>]]
    /\ nextUserId' = nextUserId + 1
    /\ UNCHANGED <<users, expenses, uniqueLedger, started, faults, removals,
                   assigned, overlapped, removed>>

\* new_user = cur.fetchone(); conn.commit(); return new_user
CommitUser(c) ==
    /\ req[c].pc = "commit"
    /\ req[c].endpoint = "create_user"
    /\ LET row == req[c].pending[1]
       IN  /\ users' = Append(users, row)
           /\ req' = [req EXCEPT ![c] = CommitAndReturn(req[c], 201, <<row>>)]
    /\ UNCHANGED <<expenses, nextUserId, uniqueLedger, started, faults, removals,
                   assigned, overlapped, removed>>

\* SELECT ... FROM users WHERE username = %s AND email = %s; 401 when no row.
LoginSelect(c) ==
    /\ req[c].pc = "try"
    /\ req[c].endpoint = "login_user"
    /\ LET found == {i \in DOMAIN users :
                        users[i].username = req[c].username /\ users[i].email = req[c].email}
       IN  req' = [req EXCEPT ![c] =
                IF found = {}
                THEN Close([req[c] EXCEPT !.status = 401])
                ELSE Close([req[c] EXCEPT !.status = 200,
                        !.result = <<users[CHOOSE i \in found : \A j \in found : i <= j]>>])]
    /\ Unchanged(c)

----------------------------------------------------------------------------
\* get_user_expenses and export_expenses_for_powerbi

\* The arrangements of a finite set in a sequence.
Arrangements(S) ==
    {f \in [1..Cardinality(S) -> S] : \A a, b \in DOMAIN f : a # b => f[a] # f[b]}

\* SELECT * FROM expenses WHERE user_id = %s ORDER BY user_expense_id DESC:
\* every order of the user's rows the ORDER BY allows (rows of equal key in any order).
UserExpensesDesc(table, uid) ==
    LET idx == {i \in DOMAIN table : table[i].user_id = uid}
        ok(f) == \A k \in 1..(Cardinality(idx) - 1) :
                    table[f[k]].user_expense_id >= table[f[k + 1]].user_expense_id
    IN  {[k \in DOMAIN f |-> table[f[k]]] : f \in {g \in Arrangements(idx) : ok(g)}}

ListSelect(c) ==
    /\ req[c].pc = "try"
    /\ req[c].endpoint = "get_user_expenses"
    /\ \E rows \in UserExpensesDesc(expenses, req[c].user_id) :
          req' = [req EXCEPT ![c] =
                    Close([req[c] EXCEPT !.status = 200, !.result = rows])]
    /\ Unchanged(c)

\* JOIN in place of LEFT JOIN: an expense without a matching user is dropped.
InnerJoin(etable, utable) ==
    UNION {{<<i, j>> : j \in {k \in DOMAIN utable : utable[k].user_id = etable[i].user_id}}
           : i \in DOMAIN etable}

\* expenses e LEFT JOIN users u ON e.user_id = u.user_id: the pairs <<i, j>> of an
\* expense row and a matching user row, j = 0 for an expense without a match.
LeftJoin(etable, utable) ==
    UNION {LET m == {j \in DOMAIN utable : utable[j].user_id = etable[i].user_id}
           IN  IF m = {} THEN {<<i, 0>>} ELSE {<<i, j>> : j \in m}
           : i \in DOMAIN etable}

\* The columns of the SELECT list.
ExportRow(e, u, matched) ==
    [user_expense_id |-> e.user_expense_id, user_id |-> e.user_id,
     username |-> IF matched THEN u.username ELSE Null,
     email |-> IF matched THEN u.email ELSE Null,
     amount |-> e.amount, category |-> e.category, merchant |-> e.merchant,
     transaction_date |-> e.transaction_date, source |-> e.source]

\* The joined rows in every order ORDER BY e.transaction_date DESC allows.
ExportRows(etable, utable) ==
    LET pairs == LeftJoin(etable, utable)
        ok(f) == \A k \in 1..(Cardinality(pairs) - 1) :
                    etable[f[k][1]].transaction_date >= etable[f[k + 1][1]].transaction_date
        row(p) == IF p[2] = 0 THEN ExportRow(etable[p[1]], etable[p[1]], FALSE)
                  ELSE ExportRow(etable[p[1]], utable[p[2]], TRUE)
    IN  {[k \in DOMAIN f |-> row(f[k])] : f \in {g \in Arrangements(pairs) : ok(g)}}

\* df = pd.read_sql_query(...); 404 when df.empty, else the CSV as an attachment.
ExportQuery(c) ==
    /\ req[c].pc = "try"
    /\ req[c].endpoint = "export_expenses_for_powerbi"
    /\ \E rows \in ExportRows(expenses, users) :
          req' = [req EXCEPT ![c] =
                    IF rows = <<>>
                    THEN Close([req[c] EXCEPT !.status = 404])
                    ELSE Close([req[c] EXCEPT !.status = 200, !.result = rows,
                                              !.headers = {"Content-Disposition"}])]
    /\ Unchanged(c)

----------------------------------------------------------------------------
\* Rows removed outside the API (no endpoint deletes).

RemoveAt(seq, i) == [k \in 1..(Len(seq) - 1) |-> IF k < i THEN seq[k] ELSE seq[k + 1]]

RemoveExpense ==
    /\ removals < MaxRemovals
    /\ \E i \in DOMAIN expenses :
          /\ expenses' = RemoveAt(expenses, i)
          /\ removed' = removed \cup {expenses[i].user_id}
    /\ removals' = removals + 1
    /\ UNCHANGED <<users, nextUserId, uniqueLedger, req, started, faults,
                   assigned, overlapped>>

RemoveUser ==
    /\ removals < MaxRemovals
    /\ \E i \in DOMAIN users : users' = RemoveAt(users, i)
    /\ removals' = removals + 1
    /\ UNCHANGED <<expenses, nextUserId, uniqueLedger, req, started, faults,
                   assigned, overlapped, removed>>

----------------------------------------------------------------------------

Next ==
    \/ \E c \in Clients : RequestRoot(c)
    \/ \E c \in Clients : RequestSignup(c)
    \/ \E c \in Clients : RequestLogin(c)
    \/ \E c \in Clients : RequestManualExpense(c)
    \/ \E c \in Clients : RequestGetExpenses(c)
    \/ \E c \in Clients : CallExport(c)
    \/ \E c \in Clients : ConnectFails(c)
    \/ \E c \in Clients : DbFault(c)
    \/ \E c \in Clients : Unexpected(c)
    \/ \E c \in Clients : Return(c)
    \/ \E c \in Clients : SelectMax(c)
    \/ \E c \in Clients : InsertExpense(c)
    \/ \E c \in Clients : CommitExpense(c)
    \/ \E c \in Clients : InsertUser(c)
    \/ \E c \in Clients : CommitUser(c)
    \/ \E c \in Clients : LoginSelect(c)
    \/ \E c \in Clients : ListSelect(c)
    \/ \E c \in Clients : ExportQuery(c)
    \/ RemoveExpense
    \/ RemoveUser

Spec == Init /\ [][Next]_vars

\* The expense ledger alone: inserts and lists, faults, rows removed outside.
LedgerNext ==
    \/ \E c \in Clients : RequestManualExpense(c)
    \/ \E c \in Clients : RequestGetExpenses(c)
    \/ \E c \in Clients : SelectMax(c)
    \/ \E c \in Clients : InsertExpense(c)
    \/ \E c \in Clients : CommitExpense(c)
    \/ \E c \in Clients : ListSelect(c)
    \/ \E c \in Clients : DbFault(c)
    \/ \E c \in Clients : Unexpected(c)
    \/ \E c \in Clients : Return(c)
    \/ RemoveExpense

SpecLedger == Init /\ [][LedgerNext]_vars

\* The two writing endpoints and their faults.
WritesNext ==
    \/ \E c \in Clients : RequestSignup(c)
    \/ \E c \in Clients : RequestManualExpense(c)
    \/ \E c \in Clients : InsertUser(c)
    \/ \E c \in Clients : CommitUser(c)
    \/ \E c \in Clients : SelectMax(c)
    \/ \E c \in Clients : InsertExpense(c)
    \/ \E c \in Clients : CommitExpense(c)
    \/ \E c \in Clients : DbFault(c)
    \/ \E c \in Clients : Unexpected(c)
    \/ \E c \in Clients : Return(c)

SpecWrites == Init /\ [][WritesNext]_vars

\* The user directory alone.
DirectoryNext ==
    \/ \E c \in Clients : RequestSignup(c)
    \/ \E c \in Clients : RequestLogin(c)
    \/ \E c \in Clients : InsertUser(c)
    \/ \E c \in Clients : CommitUser(c)
    \/ \E c \in Clients : LoginSelect(c)
    \/ \E c \in Clients : DbFault(c)
    \/ \E c \in Clients : Unexpected(c)
    \/ \E c \in Clients : Return(c)
    \/ RemoveUser

SpecDirectory == Init /\ [][DirectoryNext]_vars

\* The export over stores built by signups, inserts and removals.
ReportNext ==
    \/ \E c \in Clients : RequestSignup(c)
    \/ \E c \in Clients : RequestManualExpense(c)
    \/ \E c \in Clients : CallExport(c)
    \/ \E c \in Clients : InsertUser(c)
    \/ \E c \in Clients : CommitUser(c)
    \/ \E c \in Clients : SelectMax(c)
    \/ \E c \in Clients : InsertExpense(c)
    \/ \E c \in Clients : CommitExpense(c)
    \/ \E c \in Clients : ExportQuery(c)
    \/ \E c \in Clients : Return(c)
    \/ RemoveUser

SpecReport == Init /\ [][ReportNext]_vars

----------------------------------------------------------------------------
\* Properties.

OneToN(seq) == seq = [i \in 1..Len(seq) |-> i]

\* C1: inserts for one user_id that run one after another, from an empty ledger
\* and with no removal, are assigned exactly 1..N in commit order, whatever
\* inserts for other users run in between.
SequentialIdsAreOneToN ==
    \A u \in UserIds :
        (u \notin overlapped /\ u \notin removed) => OneToN(assigned[u])

\* Two sequential inserts of one user with an insert of another user among them.
SequentialIdsWitness ==
    \E u, v \in UserIds :
        /\ u # v
        /\ overlapped = {}
        /\ removed = {}
        /\ Len(assigned[u]) = 2
        /\ Len(assigned[v]) = 1

\* C4, as claimed: the values assigned to a user are strictly increasing over
\* time, none ever assigned twice, also after rows were removed (stated for
\* users whose inserts ran one after another, apart from the race of C10).
AssignedIdsNeverReused ==
    \A u \in UserIds :
        u \notin overlapped =>
            \A i, j \in DOMAIN assigned[u] : i < j => assigned[u][i] < assigned[u][j]

\* C4, amended: the value an insert computes is strictly greater than every
\* user_expense_id the user's rows hold when it reads the maximum, and it is 1
\* when the user has no row then.
NewIdExceedsPresentIds ==
    [][\A c \in Clients :
          (req[c].pc = "try" /\ req'[c].pc = "insert") =>
              LET mine == {i \in DOMAIN expenses : expenses[i].user_id = req'[c].user_id}
              IN  /\ \A i \in mine : req'[c].next_id > expenses[i].user_expense_id
                  /\ mine = {} => req'[c].next_id = 1
                  /\ mine # {} => \E i \in mine :
                                    req'[c].next_id = expenses[i].user_expense_id + 1]_vars

\* A value assigned twice to a user whose inserts never overlapped: the row that
\* held the maximum was removed and the next insert took its value again.
RetiredIdReusedWitness ==
    \E u \in removed :
        /\ u \notin overlapped
        /\ \E i, j \in DOMAIN assigned[u] : i < j /\ assigned[u][i] = assigned[u][j]

LedgerEndpoint == "create_manual_expense"

RowsWithKey(uid, ueid) ==
    {i \in DOMAIN expenses :
        expenses[i].user_id = uid /\ expenses[i].user_expense_id = ueid}

\* Two inserts for one user that both read the maximum before either committed,
\* both finished, with no fault raised and no row of the user removed.
RacedPair(c, d) ==
    /\ c # d
    /\ req[c].pc = "done" /\ req[d].pc = "done"
    /\ req[c].endpoint = LedgerEndpoint /\ req[d].endpoint = LedgerEndpoint
    /\ req[c].raced /\ req[d].raced
    /\ ~req[c].faulted /\ ~req[d].faulted
    /\ req[c].user_id = req[d].user_id
    /\ req[c].next_id = req[d].next_id
    /\ req[c].next_id > 0
    /\ req[c].user_id \notin removed

\* C10: when two concurrent inserts for one user computed the same max+1, then
\* without a uniqueness constraint both commit and the ledger holds two rows of
\* the user with that user_expense_id, and with the constraint exactly one
\* commits and the other is answered 400 after a rollback.
RaceDuplicatesOrCollides ==
    \A c, d \in Clients :
        RacedPair(c, d) =>
            IF uniqueLedger
            THEN /\ {req[c].status, req[d].status} = {201, 400}
                 /\ \A e \in {c, d} :
                       req[e].status = 400 =>
                           req[e].dberr /\ req[e].txlog = <<"rollback", "close">>
                 /\ Cardinality(RowsWithKey(req[c].user_id, req[c].next_id)) = 1
            ELSE /\ req[c].status = 201 /\ req[d].status = 201
                 /\ Cardinality(RowsWithKey(req[c].user_id, req[c].next_id)) = 2

\* The race taken without a constraint: two committed rows with one key.
RaceDuplicatesWitness ==
    \E c, d \in Clients :
        /\ RacedPair(c, d)
        /\ ~uniqueLedger
        /\ Cardinality(RowsWithKey(req[c].user_id, req[c].next_id)) = 2

\* The race taken under the constraint: one insert committed, the other refused.
RaceCollidesReached ==
    \E c, d \in Clients :
        /\ RacedPair(c, d)
        /\ uniqueLedger
        /\ req[c].status = 201 /\ req[d].status = 400

WriteEndpoints == {"create_user", "create_manual_expense"}

\* Whether the step commits a client's transaction.
CommitStep ==
    \E c \in Clients :
        /\ req[c].pc = "commit"
        /\ req'[c].pc = "done"
        /\ req'[c].status = 201
        /\ req'[c].txlog = <<"commit", "close">>

\* C5: a signup or an insert that succeeds commits and then closes; one that
\* fails with a database error rolls back and then closes and is answered an
\* error status; and the tables change only in the step that commits a
\* transaction, so a request that ends in an error leaves them as they were.
WritesCommitOrRollBack ==
    /\ [](\A c \in Clients :
            (req[c].pc = "done" /\ req[c].endpoint \in WriteEndpoints) =>
                /\ req[c].status = 201 => req[c].txlog = <<"commit", "close">>
                /\ req[c].dberr =>
                      /\ req[c].txlog = <<"rollback", "close">>
                      /\ req[c].status \in {400, 409})
    /\ [][(users' # users \/ expenses' # expenses) =>
              (CommitStep \/ removals' # removals)]_vars

\* A write that reached its commit point failed there with a database error.
RolledBackWriteWitness ==
    \E c \in Clients :
        /\ req[c].pc = "done"
        /\ req[c].endpoint \in WriteEndpoints
        /\ req[c].dberr
        /\ req[c].faulted
        /\ req[c].txlog = <<"rollback", "close">>

\* C6: an insert whose amount is 0 or negative is refused by validation before
\* the endpoint runs (422; 500 when the database could not be reached): no row
\* is written, no identifier is consumed, and the ledger never holds a row with
\* a non-positive amount.
NonPositiveAmountRejected ==
    /\ [](\A i \in DOMAIN expenses : expenses[i].amount > 0)
    /\ [](\A c \in Clients :
            (req[c].endpoint = LedgerEndpoint /\ req[c].amount <= 0) =>
                /\ req[c].pc = "done"
                /\ req[c].status = IF req[c].faulted THEN 500 ELSE 422
                /\ req[c].txlog = <<>>
                /\ req[c].pending = <<>>)
    /\ [][\A c \in Clients :
            (req'[c].endpoint = LedgerEndpoint /\ req'[c].amount <= 0 /\ req'[c] # req[c]) =>
                (expenses' = expenses /\ assigned' = assigned)]_vars

\* An insert with a non-positive amount answered while the ledger holds rows.
RejectedAmountWitness ==
    \E c \in Clients :
        /\ req[c].pc = "done"
        /\ req[c].endpoint = LedgerEndpoint
        /\ req[c].amount <= 0
        /\ req[c].status = 422
        /\ expenses # <<>>

\* Whether a users row holds the username or the email.
Held(username, email) ==
    \E i \in DOMAIN users : users[i].username = username \/ users[i].email = email

\* C7: a signup whose username or email an existing user holds is answered 409
\* and leaves the users table as it was; no two users rows share a username
\* and no two share an email.
DuplicateSignupConflicts ==
    /\ [](\A i, j \in DOMAIN users :
            i # j => /\ users[i].username # users[j].username
                     /\ users[i].email # users[j].email)
    /\ [][\A c \in Clients :
            (/\ req[c].pc = "try"
             /\ req[c].endpoint = "create_user"
             /\ Held(req[c].username, req[c].email)
             /\ req'[c].pc # "try"
             /\ ~req'[c].faulted) =>
                (req'[c].pc = "done" /\ req'[c].status = 409 /\ users' = users)]_vars

\* A signup answered 409 against a table that holds its username, not its email.
DuplicateSignupWitness ==
    \E c \in Clients :
        /\ req[c].pc = "done"
        /\ req[c].endpoint = "create_user"
        /\ req[c].status = 409
        /\ \E i \in DOMAIN users :
              users[i].username = req[c].username /\ users[i].email # req[c].email

\* The expense columns of an export row and of an expenses row.
LedgerColumns(r) ==
    <<r.user_id, r.user_expense_id, r.amount, r.category, r.merchant,
      r.transaction_date, r.source>>

\* C9: the export holds one row per expenses row, none dropped and none
\* repeated by the join, and a row whose user_id matches no users row carries a
\* null username and a null email; it is answered 404 exactly when there is no
\* expenses row.
ExportHasOneRowPerExpense ==
    [][\A c \in Clients :
          (/\ req[c].pc = "try"
           /\ req[c].endpoint = "export_expenses_for_powerbi"
           /\ req'[c].pc = "done"
           /\ ~req'[c].faulted) =>
              LET res == req'[c].result
              IN  /\ Len(res) = Len(expenses)
                  /\ \A i \in DOMAIN expenses :
                        Cardinality({k \in DOMAIN res :
                                        LedgerColumns(res[k]) = LedgerColumns(expenses[i])})
                        = Cardinality({k \in DOMAIN expenses :
                                        LedgerColumns(expenses[k]) = LedgerColumns(expenses[i])})
                  /\ \A k \in DOMAIN res :
                        IF \E j \in DOMAIN users : users[j].user_id = res[k].user_id
                        THEN \E j \in DOMAIN users :
                                /\ users[j].user_id = res[k].user_id
                                /\ res[k].username = users[j].username
                                /\ res[k].email = users[j].email
                        ELSE res[k].username = Null /\ res[k].email = Null
                  /\ (req'[c].status = 404) = (expenses = <<>>)
                  /\ (req'[c].status = 200) = (expenses # <<>>)]_vars

\* An export that carries the expense of a user whose row was removed.
ExportOrphanWitness ==
    \E c \in Clients :
        /\ req[c].pc = "done"
        /\ req[c].endpoint = "export_expenses_for_powerbi"
        /\ req[c].status = 200
        /\ removals > 0
        /\ \E k \in DOMAIN req[c].result :
              /\ req[c].result[k].username = Null
              /\ req[c].result[k].user_id < nextUserId

\* C2, as claimed: no request ends with the connection it acquired still open.
EveryRequestClosesItsConnection ==
    \A c \in Clients : req[c].pc = "done" => req[c].conn # "open"

\* C3, as claimed: GET /expenses/powerbi_export is handled by the export
\* endpoint and answered 404 or 200.
ExportPathReachesExport ==
    \A c \in Clients :
        (req[c].method = "GET" /\ req[c].path = <<"expenses", "powerbi_export">>) =>
            /\ req[c].endpoint = "export_expenses_for_powerbi"
            /\ (req[c].pc = "done" /\ ~req[c].faulted) => req[c].status \in {200, 404}

\* C8, as claimed: a list holds the rows of its user only, each entry's
\* user_expense_id strictly greater than the next entry's.
ListStrictlyDescending ==
    \A c \in Clients :
        (req[c].pc = "done" /\ req[c].endpoint = "get_user_expenses"
            /\ req[c].status = 200) =>
            /\ \A k \in DOMAIN req[c].result : req[c].result[k].user_id = req[c].user_id
            /\ \A k \in 1..(Len(req[c].result) - 1) :
                  req[c].result[k].user_expense_id > req[c].result[k + 1].user_expense_id

====
